---- MODULE Spec2Model ----
(***************************************************************************)
(* Model of task/filter/filter.go: the process-wide registry of filter     *)
(* instances (filterMaps, mtx, numOfFilterTotal), GetFilters / NewFilters  *)
(* / RemoveFilter, MergeFilterConfig, the dispatch loop Filters.Run and    *)
(* the rule evaluation Filters.Handle.                                     *)
(*                                                                         *)
(* Go strings are sequences of one-character strings, so that              *)
(* strings.Contains and strings.SplitN are computed, not assumed.          *)
(***************************************************************************)
EXTENDS Integers, Sequences, FiniteSets, TLC

\* ------------------------------------------------------------------ bounds
MaxEvents == 2      \* inbound events the environment produces in one run
MaxRuleConds == 3   \* size of a rule set in the rule-evaluation runs: the
                    \* conditions of its groups, an empty group counting one

\* callers of GetFilters; each caller's config carries its own ProcessorID
Callers == {"p1", "p2"}
FilterIDs == {"f"}
NoInst == "none"
\* ProcessorIDs: those of the callers, and p0, the ProcessorID of a call of
\* GetFilters that returned before the calls of Callers start (WarmInit)
Procs == Callers \cup {"p0"}
\* NewFilters allocates at most one instance per call: the instance built by
\* the call with ProcessorID c is named c.
Insts == Procs

\* ------------------------------------------------------------ Go strings
Contains(s, substr) ==
    \E i \in 1..(Len(s) + 1) :
        /\ i + Len(substr) - 1 <= Len(s)
        /\ SubSeq(s, i, i + Len(substr) - 1) = substr

\* strings.Index, 1-based; 0 when substr does not occur
Index(s, substr) ==
    IF ~Contains(s, substr) THEN 0
    ELSE CHOOSE i \in 1..(Len(s) + 1) :
            /\ i + Len(substr) - 1 <= Len(s)
            /\ SubSeq(s, i, i + Len(substr) - 1) = substr
            /\ \A j \in 1..(i - 1) : SubSeq(s, j, j + Len(substr) - 1) # substr

\* strings.explode: the first n-1 characters one by one, the rest as last part
RECURSIVE Explode(_, _)
Explode(s, n) ==
    IF Len(s) = 0 THEN << >>
    ELSE IF n = 1 \/ Len(s) = 1 THEN << s >>
    ELSE << SubSeq(s, 1, 1) >> \o Explode(SubSeq(s, 2, Len(s)), n - 1)

\* strings.SplitN (genSplit with sepSave = 0)
RECURSIVE SplitN(_, _, _)
SplitN(s, sep, n) ==
    IF n = 0 THEN << >>
    ELSE IF sep = << >> THEN Explode(s, n)
    ELSE IF n = 1 \/ Index(s, sep) = 0 THEN << s >>
    ELSE LET m == Index(s, sep) IN
         << SubSeq(s, 1, m - 1) >> \o
             SplitN(SubSeq(s, m + Len(sep), Len(s)), sep, n - 1)

\* ------------------------------------------------------ operation catalog
\* getOperation: the predicate registered under an operator name, "nil" when
\* the name is not in the catalog
getOperation(op) == IF op \in {"eq", "contains"} THEN op ELSE "nil"

operationFunc(f, value, key) ==
    IF f = "eq" THEN value = key ELSE Contains(value, key)

\* --------------------------------------------------------- Filters.Handle
\* ConditionsAccess with the whole-line test of a condition of index <= 0
\* left out
RECURSIVE ConditionsAccessWholeLineSkipped(_, _, _, _)
ConditionsAccessWholeLineSkipped(conds, k, words, text) ==
    IF k > Len(conds) THEN TRUE
    ELSE LET condition == conds[k] IN
         IF condition.Index <= 0
         THEN ConditionsAccessWholeLineSkipped(conds, k + 1, words, text)
         ELSE LET opf == getOperation(condition.Op) IN
              IF opf # "nil"
              THEN IF Len(words) < condition.Index THEN FALSE
                   ELSE IF ~operationFunc(opf, words[condition.Index], condition.Key)
                        THEN FALSE
                        ELSE ConditionsAccessWholeLineSkipped(conds, k + 1, words, text)
              ELSE ConditionsAccessWholeLineSkipped(conds, k + 1, words, text)

\* ConditionsAccess with a short line passing the condition instead of
\* failing it
RECURSIVE ConditionsAccessShortLinePasses(_, _, _, _)
ConditionsAccessShortLinePasses(conds, k, words, text) ==
    IF k > Len(conds) THEN TRUE
    ELSE LET condition == conds[k] IN
         IF condition.Index <= 0
         THEN IF ~Contains(text, condition.Key) THEN FALSE
              ELSE ConditionsAccessShortLinePasses(conds, k + 1, words, text)
         ELSE LET opf == getOperation(condition.Op) IN
              IF opf # "nil"
              THEN IF Len(words) < condition.Index
                   THEN ConditionsAccessShortLinePasses(conds, k + 1, words, text)
                   ELSE IF ~operationFunc(opf, words[condition.Index], condition.Key)
                        THEN FALSE
                        ELSE ConditionsAccessShortLinePasses(conds, k + 1, words, text)
              ELSE ConditionsAccessShortLinePasses(conds, k + 1, words, text)

\* ConditionsAccess with an operator missing from the catalog failing the
\* condition
RECURSIVE ConditionsAccessUnknownFails(_, _, _, _)
ConditionsAccessUnknownFails(conds, k, words, text) ==
    IF k > Len(conds) THEN TRUE
    ELSE LET condition == conds[k] IN
         IF condition.Index <= 0
         THEN IF ~Contains(text, condition.Key) THEN FALSE
              ELSE ConditionsAccessUnknownFails(conds, k + 1, words, text)
         ELSE LET opf == getOperation(condition.Op) IN
              IF opf # "nil"
              THEN IF Len(words) < condition.Index THEN FALSE
                   ELSE IF ~operationFunc(opf, words[condition.Index], condition.Key)
                        THEN FALSE
                        ELSE ConditionsAccessUnknownFails(conds, k + 1, words, text)
              ELSE FALSE

\* the condition loop of one rule group, from condition k on: TRUE when
\* access is still true at the end of the loop
RECURSIVE ConditionsAccess(_, _, _, _)
ConditionsAccess(conds, k, words, text) ==
    IF k > Len(conds) THEN TRUE
    ELSE LET condition == conds[k] IN
         IF condition.Index <= 0
         THEN IF ~Contains(text, condition.Key) THEN FALSE
              ELSE ConditionsAccess(conds, k + 1, words, text)
         ELSE LET opf == getOperation(condition.Op) IN
              IF opf # "nil"
              THEN IF Len(words) < condition.Index THEN FALSE
                   ELSE IF ~operationFunc(opf, words[condition.Index], condition.Key)
                        THEN FALSE
                        ELSE ConditionsAccess(conds, k + 1, words, text)
              ELSE ConditionsAccess(conds, k + 1, words, text)

\* HandleGroups deciding on the first rule group alone
HandleGroupsFirstOnly(filters, g, words, text) ==
    IF g > Len(filters) THEN FALSE
    ELSE ConditionsAccess(filters[g].Conditions, 1, words, text)

\* the loop over taskConfig.Filters, from group g on
RECURSIVE HandleGroups(_, _, _, _)
HandleGroups(filters, g, words, text) ==
    IF g > Len(filters) THEN FALSE
    ELSE IF ConditionsAccess(filters[g].Conditions, 1, words, text) THEN TRUE
    ELSE HandleGroups(filters, g + 1, words, text)

\* Handle without the test of HasFilter
HandleWithoutHasFilter(words, text, taskConfig) ==
    HandleGroups(taskConfig.Filters, 1, words, text)

\* TRUE: the event is returned (accepted); FALSE: nil (rejected)
Handle(words, text, taskConfig) ==
    IF ~taskConfig.HasFilter THEN TRUE
    ELSE HandleGroups(taskConfig.Filters, 1, words, text)

\* ------------------------------------------------------ MergeFilterConfig
\* GroupMaxIndex reading the first condition of the group
GroupMaxIndexFirst(filConfig) ==
    IF Len(filConfig.Conditions) # 0
    THEN filConfig.Conditions[1].Index
    ELSE 0

\* the index MergeFilterConfig reads from one rule group: that of its last
\* condition; 0 for a group without conditions (which the loop skips)
GroupMaxIndex(filConfig) ==
    IF Len(filConfig.Conditions) # 0
    THEN filConfig.Conditions[Len(filConfig.Conditions)].Index
    ELSE 0

\* filterMaxIndex after the loop of MergeFilterConfig ran alone from group k
RECURSIVE MergeMaxIndex(_, _, _)
MergeMaxIndex(cur, taskCfg, k) ==
    IF ~taskCfg.HasFilter \/ k > Len(taskCfg.Filters) THEN cur
    ELSE LET filConfig == taskCfg.Filters[k] IN
         IF Len(filConfig.Conditions) # 0 /\ cur < GroupMaxIndex(filConfig)
         THEN MergeMaxIndex(GroupMaxIndex(filConfig), taskCfg, k + 1)
         ELSE MergeMaxIndex(cur, taskCfg, k + 1)

\* UnfilteredForward without the test of the delimiter
UnfilteredForwardNoDelimiter(data, delimiter) == ~data.ok

\* the test of Run that selects the unfiltered forward
UnfilteredForward(data, delimiter) == ~data.ok \/ delimiter = << >>


\* ------------------------------------------------------------ input menus
Str(c) == << c >>
Comma == << "," >>
LineABC == << "a", ",", "b", ",", "c" >>

Cond(i, op, key) == [Index |-> i, Op |-> op, Key |-> key]

\* the rule sets the callers of GetFilters bring in the registry runs
RuleMenu ==
    { [Delimiter |-> << >>, HasFilter |-> FALSE, Filters |-> << >>],
      [Delimiter |-> Comma, HasFilter |-> TRUE,
       Filters |-> << [Conditions |-> << Cond(3, "contains", Str("c")) >>] >>],
      [Delimiter |-> Comma, HasFilter |-> TRUE,
       Filters |-> << [Conditions |-> << Cond(1, "eq", Str("b")) >>],
                      [Conditions |-> << Cond(0, "eq", Str("x")) >>] >>] }

TaskCfg(fid, pid, rule) ==
    [FilterID |-> fid, ProcessorID |-> pid, Delimiter |-> rule.Delimiter,
     HasFilter |-> rule.HasFilter, Filters |-> rule.Filters]

\* event.Fields["data"]: ok is the result of the string type assertion
DataMenu ==
    { [ok |-> FALSE, text |-> << >>],
      [ok |-> TRUE, text |-> << >>],
      [ok |-> TRUE, text |-> LineABC] }

\* ------------------------------------------------------------------ state
VARIABLES
    filterMaps,          \* filterMaps: FilterID -> instance, NoInst when absent
    mtx,                 \* sync.RWMutex: [r |-> readers, w |-> writer held]
    numOfFilterTotal,    \* num_filter_total
    filterDroppedTotal,  \* filter_dropped_total
    filterHandledTotal,  \* filter_handled_total
    made,                \* made[i]: instance i was allocated by NewFilters
    ID,                  \* Node.ID of instance i
    Delimiter,           \* Filters.Delimiter
    filterMaxIndex,      \* Filters.filterMaxIndex
    taskConfigMaps,      \* Filters.taskConfigMaps: ProcessorID -> config
    Outs,                \* Node.Outs: the ProcessorIDs that have an endpoint
    TaskNodeList,        \* Node.TaskNodeList: the ProcessorIDs with task nodes
    End,                 \* Node.End is closed
    pc,                  \* position of each caller inside GetFilters/NewFilters
    cfg,                 \* the taskCfg each caller passes
    fil,                 \* the caller's local fil
    ret,                 \* what GetFilters returned: an instance, "err", "none"
    mk,                  \* MergeFilterConfig of the caller: index of the group
    runPc,               \* position of Run of instance i
    cur,                 \* the event Run is processing
    words,               \* words of the current event
    todo,                \* keys the current range loop has not produced yet
    target,              \* processorID of the pending filtered send
    trk,                 \* what Run did for the event it read last
    delivered,           \* per ProcessorID: ids of the events its endpoint got
    produced,            \* number of events the upstream stages have sent
    droppedFor,          \* per ProcessorID: ids of the events dropped for it
    removes,             \* per instance: completed calls of its RemoveFilter
    mAll, mLeft, mDone, mPrev,   \* one run of sequential merges
    hPc, hData, hCfg, hBase, hMax, hWords, hRes   \* one rule-evaluation run

regVars == << filterMaps, mtx, numOfFilterTotal >>
cntVars == << filterDroppedTotal, filterHandledTotal >>
instVars == << made, ID, Delimiter, filterMaxIndex, taskConfigMaps, Outs,
               TaskNodeList, End >>
callVars == << pc, cfg, fil, ret, mk >>
runVars == << runPc, cur, words, todo, target, trk, delivered >>
hVars == << hPc, hData, hCfg, hBase, hMax, hWords, hRes >>
histVars == << droppedFor, removes >>
mVars == << mAll, mLeft, mDone, mPrev >>
vars == << regVars, cntVars, instVars, callVars, runVars, produced, hVars,
           histVars, mVars >>

NoEvent == [id |-> 0, data |-> [ok |-> FALSE, text |-> << >>]]
\* trk, a record of what Run did for one event: the path taken, the event,
\* Outs and the keys of taskConfigMaps when the event was read, the
\* ProcessorIDs sent to (in order), dropped for, evaluated, and accepted
\* while f.Outs had no endpoint for them, and whether the processing ran to
\* its end
NoTrk == [mode |-> "none", ev |-> NoEvent, outs0 |-> {}, keys0 |-> {},
          sent |-> << >>, dropped |-> << >>, evals |-> << >>,
          noout |-> << >>, done |-> FALSE]

\* the state before any call of GetFilters
RegInit ==
    /\ filterMaps = [f \in FilterIDs |-> NoInst]
    /\ mtx = [r |-> 0, w |-> FALSE]
    /\ numOfFilterTotal = 0
    /\ filterDroppedTotal = 0
    /\ filterHandledTotal = 0
    /\ made = [i \in Insts |-> FALSE]
    /\ ID = [i \in Insts |-> "f"]
    /\ Delimiter = [i \in Insts |-> << >>]
    /\ filterMaxIndex = [i \in Insts |-> 0]
    /\ taskConfigMaps = [i \in Insts |-> << >>]
    /\ Outs = [i \in Insts |-> {}]
    /\ TaskNodeList = [i \in Insts |-> {}]
    /\ End = [i \in Insts |-> FALSE]
    /\ fil = [c \in Procs |-> NoInst]
    /\ ret = [c \in Procs |-> "none"]
    /\ mk = [c \in Procs |-> 0]
    /\ runPc = [i \in Insts |-> "none"]
    /\ cur = [i \in Insts |-> NoEvent]
    /\ words = [i \in Insts |-> << >>]
    /\ todo = [i \in Insts |-> {}]
    /\ target = [i \in Insts |-> "none"]
    /\ trk = [i \in Insts |-> NoTrk]
    /\ delivered = [p \in Procs |-> << >>]
    /\ produced = 0
    /\ droppedFor = [p \in Procs |-> << >>]
    /\ removes = [i \in Insts |-> 0]

HIdle ==
    /\ hPc = "idle"
    /\ hData = [ok |-> FALSE, text |-> << >>]
    /\ hCfg = TaskCfg("f", "p1", [Delimiter |-> << >>, HasFilter |-> FALSE,
                                  Filters |-> << >>])
    /\ hBase = 0
    /\ hMax = 0
    /\ hWords = << >>
    /\ hRes = "none"

MIdle ==
    /\ mAll = << >>
    /\ mLeft = {}
    /\ mDone = << >>
    /\ mPrev = 0

\* the configs of the callers; p0 makes no call
CallerCfgs ==
    { [c \in Procs |-> TaskCfg(fid[c], c, rule[c])] :
        fid \in [Procs -> FilterIDs],
        rule \in { r \in [Procs -> RuleMenu] : r["p0"].HasFilter = FALSE } }

Init ==
    /\ RegInit
    /\ pc = [c \in Procs |-> IF c \in Callers THEN "start" ELSE "idle"]
    /\ cfg \in CallerCfgs
    /\ HIdle
    /\ MIdle

\* ------------------------------------------------- GetFilters, NewFilters
\* m with m[k] = v, k added to the keys when it is new (a Go map store)
MapStore(m, k, v) == [x \in (DOMAIN m) \cup {k} |-> IF x = k THEN v ELSE m[x]]

\* A store into a Go map that a range loop is iterating: the new key may or
\* may not be produced by the loop. loopOn: the loop of instance i is ranging
\* over the map that gets key k.
RangeAfterStore(i, k, loopOn, isNew) ==
    IF loopOn /\ isNew
    THEN todo' \in { todo, [todo EXCEPT ![i] = @ \cup {k}] }
    ELSE todo' = todo

\* mtx.RLock() of the lookup closure
GF_RLock(c) ==
    /\ pc[c] = "start"
    /\ ~mtx.w
    /\ mtx' = [mtx EXCEPT !.r = @ + 1]
    /\ pc' = [pc EXCEPT ![c] = "rlocked"]
    /\ UNCHANGED << filterMaps, numOfFilterTotal, cntVars, instVars, cfg, fil,
                    ret, mk, runVars, produced, hVars, histVars, mVars >>

\* fil, ok = filterMaps[taskCfg.FilterID]; the deferred RUnlock
GF_Lookup(c) ==
    /\ pc[c] = "rlocked"
    /\ fil' = [fil EXCEPT ![c] = filterMaps[cfg[c].FilterID]]
    /\ mtx' = [mtx EXCEPT !.r = @ - 1]
    /\ pc' = [pc EXCEPT ![c] =
                 IF filterMaps[cfg[c].FilterID] # NoInst THEN "hit" ELSE "miss"]
    /\ UNCHANGED << filterMaps, numOfFilterTotal, cntVars, instVars, cfg, ret,
                    mk, runVars, produced, hVars, histVars, mVars >>

\* GetFilters storing the rule set before it looks at the error
GF_GetProcessorsStoresFirst(c) ==
    /\ pc[c] = "hit"
    /\ taskConfigMaps' = [taskConfigMaps EXCEPT ![fil[c]] =
                             MapStore(@, cfg[c].ProcessorID, cfg[c])]
    /\ \E err \in BOOLEAN :
          IF err
          THEN /\ pc' = [pc EXCEPT ![c] = "done"]
               /\ ret' = [ret EXCEPT ![c] = "err"]
               /\ mk' = mk
          ELSE /\ pc' = [pc EXCEPT ![c] = "merge"]
               /\ ret' = ret
               /\ mk' = [mk EXCEPT ![c] = 1]
    /\ UNCHANGED << regVars, cntVars, made, ID, Delimiter, filterMaxIndex, Outs,
                    TaskNodeList, End, cfg, fil, runVars, produced, hVars,
                    histVars, mVars >>

\* processor.GetProcessors on a hit: it fails or not
GF_GetProcessors(c) ==
    /\ pc[c] = "hit"
    /\ \E err \in BOOLEAN :
          IF err
          THEN /\ pc' = [pc EXCEPT ![c] = "done"]
               /\ ret' = [ret EXCEPT ![c] = "err"]
               /\ mk' = mk
          ELSE /\ pc' = [pc EXCEPT ![c] = "merge"]
               /\ ret' = ret
               /\ mk' = [mk EXCEPT ![c] = 1]
    /\ UNCHANGED << regVars, cntVars, instVars, cfg, fil, runVars, produced,
                    hVars, histVars, mVars >>

\* one iteration of the loop of fil.MergeFilterConfig(taskCfg) on a shared
\* instance: the read of f.filterMaxIndex and the comparison
GF_MergeRead(c) ==
    /\ pc[c] = "merge"
    /\ cfg[c].HasFilter /\ mk[c] <= Len(cfg[c].Filters)
    /\ LET filConfig == cfg[c].Filters[mk[c]] IN
       IF Len(filConfig.Conditions) # 0
          /\ filterMaxIndex[fil[c]] < GroupMaxIndex(filConfig)
       THEN /\ pc' = [pc EXCEPT ![c] = "mergewr"]
            /\ mk' = mk
       ELSE /\ pc' = pc
            /\ mk' = [mk EXCEPT ![c] = @ + 1]
    /\ UNCHANGED << regVars, cntVars, instVars, cfg, fil, ret, runVars,
                    produced, hVars, histVars, mVars >>

\* f.filterMaxIndex = maxIndex
GF_MergeWrite(c) ==
    /\ pc[c] = "mergewr"
    /\ filterMaxIndex' = [filterMaxIndex EXCEPT ![fil[c]] =
                             GroupMaxIndex(cfg[c].Filters[mk[c]])]
    /\ mk' = [mk EXCEPT ![c] = @ + 1]
    /\ pc' = [pc EXCEPT ![c] = "merge"]
    /\ UNCHANGED << regVars, cntVars, made, ID, Delimiter, taskConfigMaps, Outs,
                    TaskNodeList, End, cfg, fil, ret, runVars, produced,
                    hVars, histVars, mVars >>

\* f.taskConfigMaps[taskCfg.ProcessorID] = taskCfg
GF_MergeStore(c) ==
    /\ pc[c] = "merge"
    /\ ~cfg[c].HasFilter \/ mk[c] > Len(cfg[c].Filters)
    /\ taskConfigMaps' = [taskConfigMaps EXCEPT ![fil[c]] =
                             MapStore(@, cfg[c].ProcessorID, cfg[c])]
    /\ RangeAfterStore(fil[c], cfg[c].ProcessorID,
                       runPc[fil[c]] \in {"split", "send"},
                       cfg[c].ProcessorID \notin DOMAIN taskConfigMaps[fil[c]])
    /\ pc' = [pc EXCEPT ![c] = "addout"]
    /\ UNCHANGED << regVars, cntVars, made, ID, Delimiter, filterMaxIndex, Outs,
                    TaskNodeList, End, cfg, fil, ret, mk, runPc, cur, words,
                    target, trk, delivered, produced, hVars, histVars, mVars >>

\* fil.AddOutput(p.Node)
GF_AddOutput(c) ==
    /\ pc[c] = "addout"
    /\ Outs' = [Outs EXCEPT ![fil[c]] = @ \cup {cfg[c].ProcessorID}]
    /\ RangeAfterStore(fil[c], cfg[c].ProcessorID, runPc[fil[c]] = "fwd",
                       cfg[c].ProcessorID \notin Outs[fil[c]])
    /\ pc' = [pc EXCEPT ![c] = "addtask"]
    /\ UNCHANGED << regVars, cntVars, made, ID, Delimiter, filterMaxIndex,
                    taskConfigMaps, TaskNodeList, End, cfg, fil, ret, mk,
                    runPc, cur, words, target, trk, delivered, produced, hVars, histVars, mVars >>

\* fil.AddTaskNode(p.Node, taskNode); return fil, nil
GF_AddTaskNode(c) ==
    /\ pc[c] = "addtask"
    /\ TaskNodeList' = [TaskNodeList EXCEPT ![fil[c]] = @ \cup {cfg[c].ProcessorID}]
    /\ pc' = [pc EXCEPT ![c] = "done"]
    /\ ret' = [ret EXCEPT ![c] = fil[c]]
    /\ UNCHANGED << regVars, cntVars, made, ID, Delimiter, filterMaxIndex,
                    taskConfigMaps, Outs, End, cfg, fil, mk, runVars,
                    produced, hVars, histVars, mVars >>

\* NewFilters up to go fil.Run(): the instance is built, merged and wired
\* while no other goroutine can reach it; processor.NewProcessors fails or not
NF_New(c) ==
    /\ pc[c] = "miss"
    /\ made' = [made EXCEPT ![c] = TRUE]
    /\ ID' = [ID EXCEPT ![c] = cfg[c].FilterID]
    /\ Delimiter' = [Delimiter EXCEPT ![c] = cfg[c].Delimiter]
    /\ filterMaxIndex' = [filterMaxIndex EXCEPT ![c] = MergeMaxIndex(0, cfg[c], 1)]
    /\ taskConfigMaps' = [taskConfigMaps EXCEPT ![c] =
                             MapStore(<< >>, cfg[c].ProcessorID, cfg[c])]
    /\ fil' = [fil EXCEPT ![c] = c]
    /\ \E err \in BOOLEAN :
          IF err
          THEN /\ pc' = [pc EXCEPT ![c] = "done"]
               /\ ret' = [ret EXCEPT ![c] = "err"]
               /\ UNCHANGED << Outs, TaskNodeList, runPc >>
          ELSE /\ Outs' = [Outs EXCEPT ![c] = {cfg[c].ProcessorID}]
               /\ TaskNodeList' = [TaskNodeList EXCEPT ![c] = {cfg[c].ProcessorID}]
               /\ runPc' = [runPc EXCEPT ![c] = "select"]
               /\ pc' = [pc EXCEPT ![c] = "lock"]
               /\ ret' = ret
    /\ UNCHANGED << regVars, cntVars, End, cfg, mk, cur, words, todo, target,
                    trk, delivered, produced, hVars, histVars, mVars >>

\* mtx.Lock() of NewFilters
NF_Lock(c) ==
    /\ pc[c] = "lock"
    /\ ~mtx.w /\ mtx.r = 0
    /\ mtx' = [mtx EXCEPT !.w = TRUE]
    /\ pc' = [pc EXCEPT ![c] = "locked"]
    /\ UNCHANGED << filterMaps, numOfFilterTotal, cntVars, instVars, cfg, fil,
                    ret, mk, runVars, produced, hVars, histVars, mVars >>

\* filterMaps[taskCfg.FilterID] = fil; numOfFilterTotal.Add(1); the deferred
\* Unlock; return fil, nil
NF_Register(c) ==
    /\ pc[c] = "locked"
    /\ filterMaps' = [filterMaps EXCEPT ![cfg[c].FilterID] = fil[c]]
    /\ numOfFilterTotal' = numOfFilterTotal + 1
    /\ mtx' = [mtx EXCEPT !.w = FALSE]
    /\ pc' = [pc EXCEPT ![c] = "done"]
    /\ ret' = [ret EXCEPT ![c] = fil[c]]
    /\ UNCHANGED << cntVars, instVars, cfg, fil, mk, runVars, produced, hVars, histVars, mVars >>

\* ------------------------------------------------------ the environment
\* the shutdown signal: Node.End is closed
Shutdown(i) ==
    /\ runPc[i] # "none"
    /\ ~End[i]
    /\ End' = [End EXCEPT ![i] = TRUE]
    /\ UNCHANGED << regVars, cntVars, made, ID, Delimiter, filterMaxIndex,
                    taskConfigMaps, Outs, TaskNodeList, callVars, runVars,
                    produced, hVars, histVars, mVars >>

\* ------------------------------------------------------------ Filters.Run
\* the loop is back at the outer select when the range loop has no key left
AfterIteration(i, rest) == IF rest = {} THEN "select" ELSE "split"

\* the return of the outer select without the deferred RemoveFilter
Run_EndSkipsRemove(i) ==
    /\ runPc[i] = "select"
    /\ End[i]
    /\ runPc' = [runPc EXCEPT ![i] = "dead"]
    /\ UNCHANGED << regVars, cntVars, instVars, callVars, cur, words, todo,
                    target, trk, delivered, produced, hVars, histVars, mVars >>

\* case <-f.End of the outer select: return
Run_End(i) ==
    /\ runPc[i] = "select"
    /\ End[i]
    /\ runPc' = [runPc EXCEPT ![i] = "ret"]
    /\ UNCHANGED << regVars, cntVars, instVars, callVars, cur, words, todo,
                    target, trk, delivered, produced, hVars, histVars, mVars >>

\* case e := <-f.In, with the upstream send of an event carrying d that it
\* synchronises with (Node.In is an unbuffered channel): the text is
\* extracted, and either the unfiltered forward starts its range over f.Outs,
\* or the line is split and the range over f.taskConfigMaps starts
Run_Recv(i, d) ==
    /\ runPc[i] = "select"
    /\ produced < MaxEvents
    /\ produced' = produced + 1
    /\ LET e == [id |-> produced + 1, data |-> d]
           fwd == UnfilteredForward(e.data, Delimiter[i])
           keys == IF fwd THEN Outs[i] ELSE DOMAIN taskConfigMaps[i]
       IN /\ cur' = [cur EXCEPT ![i] = e]
          /\ words' = [words EXCEPT ![i] =
                          IF fwd THEN << >>
                          ELSE SplitN(e.data.text, Delimiter[i], filterMaxIndex[i] + 1)]
          /\ todo' = [todo EXCEPT ![i] = keys]
          /\ runPc' = [runPc EXCEPT ![i] =
                          IF keys = {} THEN "select" ELSE IF fwd THEN "fwd" ELSE "split"]
          /\ trk' = [trk EXCEPT ![i] =
                        [mode |-> IF fwd THEN "fwd" ELSE "split", ev |-> e,
                         outs0 |-> Outs[i], keys0 |-> DOMAIN taskConfigMaps[i],
                         sent |-> << >>, dropped |-> << >>, evals |-> << >>,
                         noout |-> << >>, done |-> (keys = {})]]
    /\ UNCHANGED << regVars, cntVars, made, ID, Delimiter, filterMaxIndex,
                    taskConfigMaps, Outs, TaskNodeList, End, callVars, target,
                    delivered, hVars, histVars, mVars >>

\* the unfiltered forward whose range yields a key again
Run_FwdSendKeepsKey(i, p) ==
    /\ runPc[i] = "fwd"
    /\ p \in todo[i]
    /\ delivered' = [delivered EXCEPT ![p] = Append(@, cur[i].id)]
    /\ filterHandledTotal' = filterHandledTotal + 1
    /\ todo' = todo
    /\ runPc' = [runPc EXCEPT ![i] = "fwd"]
    /\ trk' = [trk EXCEPT ![i].sent = Append(@, p), ![i].done = FALSE]
    /\ UNCHANGED << regVars, filterDroppedTotal, instVars, callVars, cur, words,
                    target, produced, hVars, histVars, mVars >>

\* unfiltered forward, case out <- data for the endpoint of key p
Run_FwdSend(i, p) ==
    /\ runPc[i] = "fwd"
    /\ p \in todo[i]
    /\ delivered' = [delivered EXCEPT ![p] = Append(@, cur[i].id)]
    /\ filterHandledTotal' = filterHandledTotal + 1
    /\ todo' = [todo EXCEPT ![i] = @ \ {p}]
    /\ runPc' = [runPc EXCEPT ![i] = IF todo[i] = {p} THEN "select" ELSE "fwd"]
    /\ trk' = [trk EXCEPT ![i].sent = Append(@, p), ![i].done = (todo[i] = {p})]
    /\ UNCHANGED << regVars, filterDroppedTotal, instVars, callVars, cur, words,
                    target, produced, hVars, histVars, mVars >>

\* unfiltered forward, case <-f.End: return
Run_FwdEnd(i) ==
    /\ runPc[i] = "fwd"
    /\ End[i]
    /\ runPc' = [runPc EXCEPT ![i] = "ret"]
    /\ UNCHANGED << regVars, cntVars, instVars, callVars, cur, words, todo,
                    target, trk, delivered, produced, hVars, histVars, mVars >>

\* one iteration of the range over f.taskConfigMaps up to its select:
\* f.Handle; on nil filterDroppedTotal.Add(1) and continue (the CrawlerDropped
\* counters of lines 147-153 belong to the task nodes and are no state of this
\* package); else the lookup of f.Outs[processorID]
Run_Handle(i, p) ==
    /\ runPc[i] = "split"
    /\ p \in todo[i]
    /\ LET accept == Handle(words[i], cur[i].data.text, taskConfigMaps[i][p])
           rest == todo[i] \ {p}
       IN IF ~accept
          THEN /\ filterDroppedTotal' = filterDroppedTotal + 1
               /\ todo' = [todo EXCEPT ![i] = rest]
               /\ runPc' = [runPc EXCEPT ![i] = AfterIteration(i, rest)]
               /\ trk' = [trk EXCEPT ![i].evals = Append(@, p),
                                     ![i].dropped = Append(@, p),
                                     ![i].done = (rest = {})]
               /\ droppedFor' = [droppedFor EXCEPT ![p] = Append(@, cur[i].id)]
               /\ target' = target
          ELSE IF p \in Outs[i]
          THEN /\ runPc' = [runPc EXCEPT ![i] = "send"]
               /\ target' = [target EXCEPT ![i] = p]
               /\ todo' = [todo EXCEPT ![i] = rest]
               /\ trk' = [trk EXCEPT ![i].evals = Append(@, p)]
               /\ UNCHANGED << filterDroppedTotal, droppedFor >>
          ELSE /\ todo' = [todo EXCEPT ![i] = rest]
               /\ runPc' = [runPc EXCEPT ![i] = AfterIteration(i, rest)]
               /\ trk' = [trk EXCEPT ![i].evals = Append(@, p),
                                     ![i].noout = Append(@, p),
                                     ![i].done = (rest = {})]
               /\ UNCHANGED << target, filterDroppedTotal, droppedFor >>
    /\ UNCHANGED << regVars, filterHandledTotal, instVars, callVars, cur, words,
                    delivered, produced, hVars, removes, mVars >>

\* the filtered send without the count
Run_SendUncounted(i) ==
    /\ runPc[i] = "send"
    /\ delivered' = [delivered EXCEPT ![target[i]] = Append(@, cur[i].id)]
    /\ runPc' = [runPc EXCEPT ![i] = AfterIteration(i, todo[i])]
    /\ trk' = [trk EXCEPT ![i].sent = Append(@, target[i]),
                          ![i].done = (todo[i] = {})]
    /\ target' = [target EXCEPT ![i] = "none"]
    /\ UNCHANGED << regVars, cntVars, instVars, callVars, cur, words,
                    todo, produced, hVars, histVars, mVars >>

\* filtered send, case out <- data
Run_Send(i) ==
    /\ runPc[i] = "send"
    /\ delivered' = [delivered EXCEPT ![target[i]] = Append(@, cur[i].id)]
    /\ filterHandledTotal' = filterHandledTotal + 1
    /\ runPc' = [runPc EXCEPT ![i] = AfterIteration(i, todo[i])]
    /\ trk' = [trk EXCEPT ![i].sent = Append(@, target[i]),
                          ![i].done = (todo[i] = {})]
    /\ target' = [target EXCEPT ![i] = "none"]
    /\ UNCHANGED << regVars, filterDroppedTotal, instVars, callVars, cur, words,
                    todo, produced, hVars, histVars, mVars >>

\* a filtered send that does not race f.End: the loop stays in the send
Run_SendIgnoresEnd(i) ==
    /\ runPc[i] = "send"
    /\ End[i]
    /\ UNCHANGED vars

\* filtered send, case <-f.End: return
Run_SendEnd(i) ==
    /\ runPc[i] = "send"
    /\ End[i]
    /\ runPc' = [runPc EXCEPT ![i] = "ret"]
    /\ UNCHANGED << regVars, cntVars, instVars, callVars, cur, words, todo,
                    target, trk, delivered, produced, hVars, histVars, mVars >>

\* ----------------------------------------------------------- RemoveFilter
\* the deferred RemoveFilter(f.ID): mtx.Lock()
RemoveFilter_Lock(i) ==
    /\ runPc[i] = "ret"
    /\ ~mtx.w /\ mtx.r = 0
    /\ mtx' = [mtx EXCEPT !.w = TRUE]
    /\ runPc' = [runPc EXCEPT ![i] = "rm"]
    /\ UNCHANGED << filterMaps, numOfFilterTotal, cntVars, instVars, callVars,
                    cur, words, todo, target, trk, delivered, produced, hVars, histVars, mVars >>

\* the registry after delete(filterMaps, id)
Delete(m, id) == [m EXCEPT ![id] = NoInst]

\* delete(filterMaps, id); numOfFilterTotal.Add(-1); the deferred Unlock
RemoveFilter(i) ==
    /\ runPc[i] = "rm"
    /\ filterMaps' = Delete(filterMaps, ID[i])
    /\ numOfFilterTotal' = numOfFilterTotal - 1
    /\ mtx' = [mtx EXCEPT !.w = FALSE]
    /\ runPc' = [runPc EXCEPT ![i] = "dead"]
    /\ removes' = [removes EXCEPT ![i] = @ + 1]
    /\ UNCHANGED << cntVars, instVars, callVars, cur, words, todo, target, trk,
                    delivered, produced, hVars, droppedFor, mVars >>

\* ---------------------------------------------------------- specification
Next ==
    \/ \E c \in Callers :
          \/ GF_RLock(c) \/ GF_Lookup(c) \/ GF_GetProcessors(c)
          \/ GF_MergeRead(c) \/ GF_MergeWrite(c) \/ GF_MergeStore(c)
          \/ GF_AddOutput(c) \/ GF_AddTaskNode(c)
          \/ NF_New(c) \/ NF_Lock(c) \/ NF_Register(c)
    \/ \E i \in Insts :
          \/ Shutdown(i)
          \/ Run_End(i)
          \/ \E d \in DataMenu : Run_Recv(i, d)
          \/ \E p \in Procs : Run_FwdSend(i, p)
          \/ Run_FwdEnd(i)
          \/ \E p \in Procs : Run_Handle(i, p)
          \/ Run_Send(i) \/ Run_SendEnd(i)
          \/ RemoveFilter_Lock(i) \/ RemoveFilter(i)

Spec == Init /\ [][Next]_vars

\* ------------------------------------------- a registry that holds an instance
\* The state after a call GetFilters(cfg["p0"]) ran alone from the empty
\* registry and returned: NewFilters built the instance p0, started its loop
\* and registered it. The calls of Callers, with filtering rule sets, start
\* from there.
WarmRule == [Delimiter |-> Comma, HasFilter |-> FALSE, Filters |-> << >>]

WarmInit ==
    /\ \E rule \in [Callers -> { r \in RuleMenu : r.HasFilter }] :
          cfg = [c \in Procs |->
                    TaskCfg("f", c, IF c = "p0" THEN WarmRule ELSE rule[c])]
    /\ pc = [c \in Procs |-> IF c \in Callers THEN "start" ELSE "done"]
    /\ fil = [c \in Procs |-> IF c = "p0" THEN "p0" ELSE NoInst]
    /\ ret = [c \in Procs |-> IF c = "p0" THEN "p0" ELSE "none"]
    /\ mk = [c \in Procs |-> 0]
    /\ filterMaps = [f \in FilterIDs |-> "p0"]
    /\ mtx = [r |-> 0, w |-> FALSE]
    /\ numOfFilterTotal = 1
    /\ filterDroppedTotal = 0
    /\ filterHandledTotal = 0
    /\ made = [i \in Insts |-> i = "p0"]
    /\ ID = [i \in Insts |-> "f"]
    /\ Delimiter = [i \in Insts |-> IF i = "p0" THEN WarmRule.Delimiter ELSE << >>]
    /\ filterMaxIndex = [i \in Insts |-> 0]
    /\ taskConfigMaps = [i \in Insts |->
                            IF i = "p0"
                            THEN MapStore(<< >>, "p0", TaskCfg("f", "p0", WarmRule))
                            ELSE << >>]
    /\ Outs = [i \in Insts |-> IF i = "p0" THEN {"p0"} ELSE {}]
    /\ TaskNodeList = [i \in Insts |-> IF i = "p0" THEN {"p0"} ELSE {}]
    /\ End = [i \in Insts |-> FALSE]
    /\ runPc = [i \in Insts |-> IF i = "p0" THEN "select" ELSE "none"]
    /\ cur = [i \in Insts |-> NoEvent]
    /\ words = [i \in Insts |-> << >>]
    /\ todo = [i \in Insts |-> {}]
    /\ target = [i \in Insts |-> "none"]
    /\ trk = [i \in Insts |-> NoTrk]
    /\ delivered = [p \in Procs |-> << >>]
    /\ produced = 0
    /\ droppedFor = [p \in Procs |-> << >>]
    /\ removes = [i \in Insts |-> 0]
    /\ HIdle
    /\ MIdle

SpecWarm == WarmInit /\ [][Next]_vars

\* ------------------------------------------------- fair scheduling
\* The registry runs of two callers with filtering rule sets, scheduled
\* fairly; the instances are those the two calls allocate. A goroutine that can take a step takes one: the loop evaluates the
\* next rule set, a select whose case <-f.End is ready and whose send is not
\* returns, the holder of mtx gets to its Unlock. The select of line 115
\* picks among its ready cases at random, so it does not pick the receive
\* for ever while f.End is closed; sync.RWMutex does not starve a writer.
\* The endpoints are under no obligation: a send may never be accepted.
LiveInit ==
    /\ RegInit
    /\ pc = [c \in Procs |-> IF c \in Callers THEN "start" ELSE "idle"]
    /\ cfg \in { cs \in CallerCfgs :
                   /\ cs["p1"].HasFilter /\ Len(cs["p1"].Filters) = 2
                   /\ cs["p2"].HasFilter /\ Len(cs["p2"].Filters) = 1 }
    /\ HIdle
    /\ MIdle

Fairness ==
    /\ \A i \in Callers :
          /\ SF_vars(Run_End(i))
          /\ WF_vars(Run_FwdEnd(i))
          /\ WF_vars(Run_SendEnd(i))
          /\ WF_vars(\E p \in Procs : Run_Handle(i, p))
          /\ SF_vars(RemoveFilter_Lock(i))
          /\ WF_vars(RemoveFilter(i))
    /\ \A c \in Callers :
          /\ WF_vars(GF_Lookup(c))
          /\ WF_vars(NF_Register(c))

SpecLive == LiveInit /\ [][Next]_vars /\ Fairness

\* ------------------------------------------- one rule-evaluation run
\* What Run decides for one event and one consumer of an instance that
\* NewFilters built from the consumer's config: the unfiltered forward, or the
\* split followed by Handle.

HConds ==
    { Cond(0, "eq", Str("c")), Cond(-1, "bogus", Str("b")),
      Cond(1, "eq", Str("a")), Cond(3, "contains", Str("c")),
      Cond(4, "contains", Str("c")), Cond(4, "bogus", Str("c")) }

\* the rule groups of size w: w conditions, or none when w = 1
HGroups(w) ==
    { [Conditions |-> cs] : cs \in [1..w -> HConds] }
        \cup (IF w = 1 THEN { [Conditions |-> << >>] } ELSE {})

\* the lists of rule groups of total size at most t
RECURSIVE HFilters(_)
HFilters(t) ==
    IF t = 0 THEN { << >> }
    ELSE { << >> } \cup
         UNION { { << g >> \o rest : g \in HGroups(w), rest \in HFilters(t - w) } :
                 w \in 1..t }

HDelimiters == { << >>, Comma, Str("b") }

HData ==
    { [ok |-> FALSE, text |-> << >>],
      [ok |-> TRUE, text |-> << >>],
      [ok |-> TRUE, text |-> Str("a")],
      [ok |-> TRUE, text |-> LineABC] }

HInit ==
    /\ RegInit
    /\ MIdle
    /\ pc = [c \in Procs |-> "done"]
    /\ cfg = [c \in Procs |->
                 TaskCfg("f", c, [Delimiter |-> << >>, HasFilter |-> FALSE,
                                  Filters |-> << >>])]
    /\ hPc = "in"
    /\ hData \in HData
    /\ \E d \in HDelimiters, hf \in BOOLEAN, fs \in HFilters(MaxRuleConds) :
           hCfg = TaskCfg("f", "p1", [Delimiter |-> d, HasFilter |-> hf,
                                      Filters |-> fs])
    /\ hBase = 0
    /\ hMax = MergeMaxIndex(hBase, hCfg, 1)
    /\ hWords = << >>
    /\ hRes = "none"

hOther == << regVars, cntVars, instVars, callVars, runVars, produced,
            histVars, mVars >>

\* if !ok || f.Delimiter == "": the event goes to the consumer's endpoint
H_Forward ==
    /\ hPc = "in"
    /\ UnfilteredForward(hData, hCfg.Delimiter)
    /\ hPc' = "forwarded"
    /\ hRes' = "accept"
    /\ UNCHANGED << hData, hCfg, hBase, hMax, hWords, hOther >>

\* words := strings.SplitN(text, f.Delimiter, f.filterMaxIndex+1)
H_Split ==
    /\ hPc = "in"
    /\ ~UnfilteredForward(hData, hCfg.Delimiter)
    /\ hWords' = SplitN(hData.text, hCfg.Delimiter, hMax + 1)
    /\ hPc' = "words"
    /\ UNCHANGED << hData, hCfg, hBase, hMax, hRes, hOther >>

\* event := f.Handle(words, text, taskConfig, event)
H_Handle ==
    /\ hPc = "words"
    /\ hRes' = IF Handle(hWords, hData.text, hCfg) THEN "accept" ELSE "reject"
    /\ hPc' = "handled"
    /\ UNCHANGED << hData, hCfg, hBase, hMax, hWords, hOther >>

HNext == H_Forward \/ H_Split \/ H_Handle

SpecHandle == HInit /\ [][HNext]_vars

\* --------------------------------------------- one run of sequential merges
\* MergeFilterConfig called MaxMerges times, one call after the other, on one
\* instance, with the configs of mAll in every order.

MaxMerges == 2
MInst == "p0"
MPids == << "p0", "p1", "p2" >>

MergeMenu ==
    { [Delimiter |-> Comma, HasFilter |-> FALSE, Filters |-> << >>],
      [Delimiter |-> Comma, HasFilter |-> FALSE,
       Filters |-> << [Conditions |-> << Cond(4, "eq", Str("a")) >>] >>],
      [Delimiter |-> Comma, HasFilter |-> TRUE,
       Filters |-> << [Conditions |-> << Cond(1, "eq", Str("a")),
                                         Cond(3, "eq", Str("a")) >>] >>],
      [Delimiter |-> Comma, HasFilter |-> TRUE,
       Filters |-> << [Conditions |-> << Cond(4, "eq", Str("a")),
                                         Cond(2, "eq", Str("a")) >>] >>],
      [Delimiter |-> Comma, HasFilter |-> TRUE,
       Filters |-> << [Conditions |-> << Cond(3, "eq", Str("a")) >>],
                      [Conditions |-> << Cond(1, "eq", Str("a")) >>] >>],
      [Delimiter |-> Comma, HasFilter |-> TRUE,
       Filters |-> << [Conditions |-> << >>],
                      [Conditions |-> << Cond(2, "eq", Str("a")) >>] >>],
      [Delimiter |-> Comma, HasFilter |-> TRUE,
       Filters |-> << [Conditions |-> << Cond(-1, "eq", Str("a")) >>] >>] }

\* the instance MInst as the struct literal of NewFilters leaves it: no
\* rule set merged, filterMaxIndex 0
MInit ==
    /\ filterMaps = [f \in FilterIDs |-> NoInst]
    /\ mtx = [r |-> 0, w |-> FALSE]
    /\ numOfFilterTotal = 0
    /\ filterDroppedTotal = 0
    /\ filterHandledTotal = 0
    /\ made = [i \in Insts |-> i = MInst]
    /\ ID = [i \in Insts |-> "f"]
    /\ Delimiter = [i \in Insts |-> IF i = MInst THEN Comma ELSE << >>]
    /\ filterMaxIndex = [i \in Insts |-> 0]
    /\ taskConfigMaps = [i \in Insts |-> << >>]
    /\ Outs = [i \in Insts |-> {}]
    /\ TaskNodeList = [i \in Insts |-> {}]
    /\ End = [i \in Insts |-> FALSE]
    /\ pc = [c \in Procs |-> "done"]
    /\ cfg = [c \in Procs |->
                 TaskCfg("f", c, [Delimiter |-> Comma, HasFilter |-> FALSE,
                                  Filters |-> << >>])]
    /\ fil = [c \in Procs |-> NoInst]
    /\ ret = [c \in Procs |-> "none"]
    /\ mk = [c \in Procs |-> 0]
    /\ runPc = [i \in Insts |-> "none"]
    /\ cur = [i \in Insts |-> NoEvent]
    /\ words = [i \in Insts |-> << >>]
    /\ todo = [i \in Insts |-> {}]
    /\ target = [i \in Insts |-> "none"]
    /\ trk = [i \in Insts |-> NoTrk]
    /\ delivered = [p \in Procs |-> << >>]
    /\ produced = 0
    /\ droppedFor = [p \in Procs |-> << >>]
    /\ removes = [i \in Insts |-> 0]
    /\ HIdle
    /\ \E rules \in [1..MaxMerges -> MergeMenu] :
          mAll = [k \in 1..MaxMerges |-> TaskCfg("f", MPids[k], rules[k])]
    /\ mLeft = 1..MaxMerges
    /\ mDone = << >>
    /\ mPrev = 0

\* MergeFilterConfig that forgets the index it had
M_MergeFilterConfigForgets(k) ==
    /\ k \in mLeft
    /\ filterMaxIndex' = [filterMaxIndex EXCEPT ![MInst] =
                             MergeMaxIndex(0, mAll[k], 1)]
    /\ taskConfigMaps' = [taskConfigMaps EXCEPT ![MInst] =
                             MapStore(@, mAll[k].ProcessorID, mAll[k])]
    /\ mPrev' = filterMaxIndex[MInst]
    /\ mDone' = Append(mDone, k)
    /\ mLeft' = mLeft \ {k}
    /\ UNCHANGED << regVars, cntVars, made, ID, Delimiter, Outs, TaskNodeList,
                    End, callVars, runVars, produced, hVars, histVars, mAll >>

\* f.MergeFilterConfig(mAll[k]), with no other call in progress
M_MergeFilterConfig(k) ==
    /\ k \in mLeft
    /\ filterMaxIndex' = [filterMaxIndex EXCEPT ![MInst] =
                             MergeMaxIndex(@, mAll[k], 1)]
    /\ taskConfigMaps' = [taskConfigMaps EXCEPT ![MInst] =
                             MapStore(@, mAll[k].ProcessorID, mAll[k])]
    /\ mPrev' = filterMaxIndex[MInst]
    /\ mDone' = Append(mDone, k)
    /\ mLeft' = mLeft \ {k}
    /\ UNCHANGED << regVars, cntVars, made, ID, Delimiter, Outs, TaskNodeList,
                    End, callVars, runVars, produced, hVars, histVars, mAll >>

MNext == \E k \in 1..MaxMerges : M_MergeFilterConfig(k)

SpecMerge == MInit /\ [][MNext]_vars

\* ================================================================ claims

Started(i) == runPc[i] # "none"
\* the dispatch loop is alive: started and Run has not returned yet
Alive(i) == runPc[i] \notin {"none", "dead"}
AllReturned == \A c \in Callers : pc[c] = "done" /\ ret[c] \in Insts
SameFilterID == \A c, d \in Callers : cfg[c].FilterID = cfg[d].FilterID
\* no call of GetFilters and no RemoveFilter is in flight
Quiescent ==
    /\ \A c \in Callers : pc[c] \in {"start", "done"}
    /\ \A i \in Insts : runPc[i] \notin {"ret", "rm"}

\* C1: when all callers of GetFilters, with one filterID and distinct
\* ProcessorIDs, have returned an instance and no shutdown was signalled,
\* exactly one dispatch loop was started and the registry entry of the
\* filterID is an instance that holds every caller's rule set and endpoint.
C1_OneInstanceAllMerged ==
    (AllReturned /\ SameFilterID /\ \A i \in Insts : ~End[i]) =>
        /\ Cardinality({ i \in Insts : Started(i) }) = 1
        /\ \E i \in Insts :
              /\ \A c \in Callers : filterMaps[cfg[c].FilterID] = i
              /\ DOMAIN taskConfigMaps[i] = Callers
              /\ Outs[i] = Callers

\* C2: whenever no registry operation is in flight (and, here, no shutdown was
\* signalled yet), an instance is the registry entry of its filterID if and
\* only if its dispatch loop is alive.
C2_RegisteredIffAlive ==
    (Quiescent /\ \A i \in Insts : ~End[i]) =>
        \A i \in Insts : (filterMaps[ID[i]] = i) <=> Alive(i)

\* C3: the RemoveFilter of a terminating instance (one that NewFilters had
\* registered and returned) leaves the registry entry of its filterID in place
\* when that entry is another instance.
C3_RemoveVerifiesIdentity ==
    [][ \A i \in Insts :
          (runPc[i] = "rm" /\ runPc'[i] = "dead" /\ ret[i] = i
              /\ filterMaps[ID[i]] \notin {NoInst, i})
          => filterMaps'[ID[i]] = filterMaps[ID[i]] ]_vars

\* C4: once the shutdown signal of an instance has fired and its Run has
\* returned, the registry entry of its filterID is not that instance.
C4_AbsentAfterShutdown ==
    \A i \in Insts :
        (End[i] /\ runPc[i] = "dead" /\ Quiescent) => filterMaps[ID[i]] # i

Count(seq, p) == Cardinality({ k \in 1..Len(seq) : seq[k] = p })

\* Run forwarded the event it read last to every endpoint registered when it
\* read the event, once each, to no endpoint twice, without evaluating or
\* dropping anything
ForwardedOnce(i) ==
    /\ trk[i].mode = "fwd"
    /\ \A p \in trk[i].outs0 : Count(trk[i].sent, p) = 1
    /\ \A p \in Procs : Count(trk[i].sent, p) <= 1
    /\ trk[i].evals = << >>
    /\ trk[i].dropped = << >>

\* C5 as claimed: an event whose raw line is missing or empty, or any event
\* when the delimiter is empty, is forwarded once to every endpoint if its
\* processing runs to the end.
C5_EmptyLineForwarded ==
    \A i \in Insts :
        (trk[i].done /\ (~trk[i].ev.data.ok \/ trk[i].ev.data.text = << >>
                            \/ Delimiter[i] = << >>))
        => ForwardedOnce(i)

\* C5 amended: an event whose raw line is missing, or any event when the
\* delimiter is empty, is forwarded once to every endpoint registered when the
\* event was read, with no rule evaluation and no drop, if its processing runs
\* to the end.
C5_MissingLineForwarded ==
    \A i \in Insts :
        (trk[i].done /\ (~trk[i].ev.data.ok \/ Delimiter[i] = << >>))
        => ForwardedOnce(i)

C5_Witness ==
    \E i \in Insts :
        /\ trk[i].done /\ trk[i].mode = "fwd"
        /\ trk[i].ev.data.ok /\ Delimiter[i] = << >>
        /\ trk[i].outs0 = Callers
        /\ Len(trk[i].sent) = Cardinality(Callers)

\* C6: Handle accepts every event for a rule set without HasFilter, on the
\* split Run made and on every other split of the line.
C6_NoFilterAccepts ==
    (hPc = "handled" /\ ~hCfg.HasFilter) =>
        /\ hRes = "accept"
        /\ \A n \in 0..(Len(hData.text) + 1) :
              Handle(SplitN(hData.text, hCfg.Delimiter, n), hData.text, hCfg)

C6_Witness ==
    /\ hPc = "handled" /\ ~hCfg.HasFilter /\ hRes = "accept"
    /\ Len(hCfg.Filters) = 2
    /\ \A g \in 1..2 : hCfg.Filters[g].Conditions = << Cond(4, "contains", Str("c")) >>
    /\ hData.text = Str("a")

\* a condition holds (section 4.4): index <= 0, the raw line contains the key;
\* index >= 1, the operator is unknown, or the column exists and the operator
\* holds of it and the key
ConditionHolds(condition, ws, text) ==
    IF condition.Index <= 0 THEN Contains(text, condition.Key)
    ELSE \/ condition.Op \notin {"eq", "contains"}
         \/ /\ condition.Index <= Len(ws)
            /\ IF condition.Op = "eq" THEN ws[condition.Index] = condition.Key
               ELSE Contains(ws[condition.Index], condition.Key)

GroupHolds(filConfig, ws, text) ==
    \A k \in 1..Len(filConfig.Conditions) :
        ConditionHolds(filConfig.Conditions[k], ws, text)

\* C7: with HasFilter, Handle accepts if and only if some rule group has all
\* its conditions holding.
C7_GroupsOrConditionsAnd ==
    (hPc = "handled" /\ hCfg.HasFilter) =>
        ((hRes = "accept") <=>
            \E g \in 1..Len(hCfg.Filters) :
                GroupHolds(hCfg.Filters[g], hWords, hData.text))

C7_Witness ==
    /\ hPc = "handled" /\ hCfg.HasFilter /\ hRes = "accept"
    /\ Len(hCfg.Filters) = 2
    /\ Len(hCfg.Filters[1].Conditions) = 2
    /\ GroupHolds([Conditions |-> << hCfg.Filters[1].Conditions[1] >>],
                  hWords, hData.text)
    /\ ~GroupHolds(hCfg.Filters[1], hWords, hData.text)
    /\ GroupHolds(hCfg.Filters[2], hWords, hData.text)

\* the rule set is one group of one condition of index <= 0
WholeLineRule ==
    /\ hCfg.HasFilter
    /\ Len(hCfg.Filters) = 1
    /\ Len(hCfg.Filters[1].Conditions) = 1
    /\ hCfg.Filters[1].Conditions[1].Index <= 0

\* C8 as claimed: under such a rule an event that carries a raw line goes to
\* the consumer if and only if the line contains the key, whatever the
\* delimiter.
C8_WholeLineAnyDelimiter ==
    (hPc \in {"forwarded", "handled"} /\ WholeLineRule /\ hData.ok) =>
        ((hRes = "accept") <=>
            Contains(hData.text, hCfg.Filters[1].Conditions[1].Key))

\* C8 amended: under such a rule an event that carries a raw line goes to the
\* consumer if and only if the line contains the key, whatever the non-empty
\* delimiter.
C8_WholeLineNonEmptyDelimiter ==
    (hPc \in {"forwarded", "handled"} /\ WholeLineRule
        /\ hData.ok /\ hCfg.Delimiter # << >>) =>
        ((hRes = "accept") <=>
            Contains(hData.text, hCfg.Filters[1].Conditions[1].Key))

C8_Witness ==
    /\ hPc = "handled" /\ WholeLineRule
    /\ hCfg.Delimiter = Str("b")
    /\ hData.text = LineABC
    /\ hCfg.Filters[1].Conditions[1].Key = Str("c")
    /\ hRes = "accept"

\* every rule group has a condition of index >= 1 beyond the columns of the
\* split; known: only conditions whose operator is in the catalog count
EveryGroupShort(known) ==
    \A g \in 1..Len(hCfg.Filters) :
        \E k \in 1..Len(hCfg.Filters[g].Conditions) :
            LET condition == hCfg.Filters[g].Conditions[k] IN
            /\ condition.Index >= 1
            /\ Len(hWords) < condition.Index
            /\ known => condition.Op \in {"eq", "contains"}

\* C9 as claimed: a rule set each group of which has a condition of index >= 1
\* beyond the columns of the split rejects.
C9_ShortLineFails ==
    (hPc = "handled" /\ hCfg.HasFilter /\ EveryGroupShort(FALSE)) =>
        hRes = "reject"

\* C9 amended: a rule set each group of which has a condition of index >= 1,
\* with an operator of the catalog, beyond the columns of the split rejects;
\* "a,b,c" split by "," is accepted by (3, contains, "c") and rejected by
\* (4, contains, "c").
C9_ShortLineFailsKnownOperator ==
    /\ (hPc = "handled" /\ hCfg.HasFilter /\ EveryGroupShort(TRUE)) =>
           hRes = "reject"
    /\ (hPc = "handled" /\ hCfg.HasFilter /\ hData.text = LineABC
           /\ hCfg.Delimiter = Comma) =>
           /\ hCfg.Filters = << [Conditions |-> << Cond(3, "contains", Str("c")) >>] >>
                 => hRes = "accept"
           /\ hCfg.Filters = << [Conditions |-> << Cond(4, "contains", Str("c")) >>] >>
                 => hRes = "reject"

C9_Witness ==
    /\ hPc = "handled" /\ hCfg.HasFilter
    /\ hData.text = LineABC /\ hCfg.Delimiter = Comma
    /\ hCfg.Filters = << [Conditions |-> << Cond(4, "contains", Str("c")) >>] >>
    /\ hWords = << Str("a"), Str("b"), Str("c") >>
    /\ hRes = "reject"

UnknownOperator(condition) ==
    condition.Index >= 1 /\ condition.Op \notin {"eq", "contains"}
KnownOperator(condition) == ~UnknownOperator(condition)

\* the rule set without its conditions of index >= 1 and unknown operator
StripUnknown(taskConfig) ==
    [taskConfig EXCEPT !.Filters =
        [g \in 1..Len(@) |->
            [Conditions |-> SelectSeq(@[g].Conditions, KnownOperator)]]]

\* C10: a condition of index >= 1 whose operator is not in the catalog never
\* fails its group: Handle decides as it does on the rule set without these
\* conditions, whatever the columns are.
C10_UnknownOperatorSatisfied ==
    (hPc = "handled" /\ hCfg.HasFilter) =>
        ((hRes = "accept") <=> Handle(hWords, hData.text, StripUnknown(hCfg)))

C10_Witness ==
    /\ hPc = "handled" /\ hCfg.HasFilter /\ hRes = "accept"
    /\ hCfg.Filters = << [Conditions |-> << Cond(3, "contains", Str("c")),
                                            Cond(4, "bogus", Str("c")) >>] >>
    /\ hData.text = LineABC /\ hCfg.Delimiter = Comma
    /\ Len(hWords) = 3

\* ------------------------------------------------------------ C11, C12
MaxOf(S) == CHOOSE x \in S : \A y \in S : y <= x
\* the rule sets merged so far
Merged == { mAll[mDone[j]] : j \in 1..Len(mDone) }
\* the indexes the conditions of a rule set with filtering enabled hold
CondIndexes(c) ==
    IF c.HasFilter
    THEN UNION { { c.Filters[g].Conditions[k].Index :
                     k \in 1..Len(c.Filters[g].Conditions) } :
                 g \in 1..Len(c.Filters) }
    ELSE {}
\* the index of the last condition of each of its groups
LastIndexes(c) ==
    IF c.HasFilter
    THEN { c.Filters[g].Conditions[Len(c.Filters[g].Conditions)].Index :
             g \in { h \in 1..Len(c.Filters) : Len(c.Filters[h].Conditions) > 0 } }
    ELSE {}
Ascending(c) ==
    \A g \in 1..Len(c.Filters) :
        \A k \in 1..(Len(c.Filters[g].Conditions) - 1) :
            c.Filters[g].Conditions[k].Index <= c.Filters[g].Conditions[k + 1].Index
\* maxIndex(C): what one config asks for
CfgMaxIndex(c) == MaxOf({0} \cup LastIndexes(c))

\* C11 as stated: after any sequence of merges into an instance,
\* filterMaxIndex is not below its value before the last merge and equals the
\* largest index held by any condition of any merged rule set with filtering
\* enabled (0 when there is none).
C11_MaxIndexIsMaxReferenced ==
    /\ mPrev <= filterMaxIndex[MInst]
    /\ filterMaxIndex[MInst] =
           MaxOf({0} \cup UNION { CondIndexes(c) : c \in Merged })

\* C11 amended: filterMaxIndex never decreases and equals the largest index
\* held by the last condition of any group of any merged rule set with
\* filtering enabled (0 when there is none); that is the largest index held by
\* any condition when every group lists its conditions by ascending index.
C11_MaxIndexIsMaxOfLast ==
    /\ mPrev <= filterMaxIndex[MInst]
    /\ filterMaxIndex[MInst] =
           MaxOf({0} \cup UNION { LastIndexes(c) : c \in Merged })
    /\ (\A c \in Merged : Ascending(c)) =>
           filterMaxIndex[MInst] =
               MaxOf({0} \cup UNION { CondIndexes(c) : c \in Merged })

C11_Witness ==
    /\ Len(mDone) = MaxMerges
    /\ \A c \in Merged : Ascending(c) /\ Len(c.Filters) > 0 /\ c.HasFilter
    /\ 0 < mPrev /\ mPrev < filterMaxIndex[MInst]
    /\ \E c \in Merged : Len(c.Filters[1].Conditions) > 1

\* C12: once the configs of mAll are all merged, in whichever order,
\* filterMaxIndex is the largest of their maxIndex.
C12_MergeOrderIndependent ==
    mLeft = {} =>
        filterMaxIndex[MInst] =
            MaxOf({ CfgMaxIndex(mAll[k]) : k \in 1..MaxMerges })

\* the config that asks for the larger index was merged first
C12_Witness ==
    /\ mLeft = {}
    /\ CfgMaxIndex(mAll[mDone[1]]) > CfgMaxIndex(mAll[mDone[MaxMerges]])
    /\ CfgMaxIndex(mAll[mDone[MaxMerges]]) > 0
    /\ filterMaxIndex[MInst] = CfgMaxIndex(mAll[mDone[1]])

\* ------------------------------------------------------------------ C13
\* the steps of a call of GetFilters that returns an error: the lookup, and
\* the return of the error of GetProcessors or NewProcessors
ErrorPathStep(c) ==
    /\ pc'[c] # pc[c]
    /\ pc'[c] \in {"rlocked", "hit", "miss"} \/ ret'[c] = "err"

\* what the calls share: the registry, its counter, the dispatch loops, and
\* the rule sets, index and endpoints of the instances other than the one
\* call c may have allocated for itself
SharedUnchanged(c) ==
    /\ filterMaps' = filterMaps
    /\ numOfFilterTotal' = numOfFilterTotal
    /\ runPc' = runPc
    /\ \A i \in Insts \ {c} :
          /\ taskConfigMaps'[i] = taskConfigMaps[i]
          /\ filterMaxIndex'[i] = filterMaxIndex[i]
          /\ Outs'[i] = Outs[i]

\* C13: a call of GetFilters that returns the error of the processor
\* construction changes nothing the calls share, at any of its steps: no
\* instance registered, no loop started, counter unchanged on a miss; rule
\* sets, filterMaxIndex and endpoints of the instance found unchanged on a hit.
\* After it returned, the registry does not hold an instance of this call, no
\* loop runs for it, and no instance holds its rule set or its endpoint.
C13_ErrorLeavesSharedState ==
    /\ [][\A c \in Callers : ErrorPathStep(c) => SharedUnchanged(c)]_vars
    /\ [](\A c \in Callers : ret[c] = "err" =>
             /\ runPc[c] = "none"
             /\ \A f \in FilterIDs : filterMaps[f] # c
             /\ \A i \in Insts \ {c} :
                   /\ cfg[c].ProcessorID \notin DOMAIN taskConfigMaps[i]
                   /\ cfg[c].ProcessorID \notin Outs[i])

\* the error on a hit: the instance found holds a rule set with an index and
\* an endpoint, and its loop runs
C13_Witness ==
    \E c \in Callers :
        /\ ret[c] = "err"
        /\ fil[c] \in Insts \ {c}
        /\ filterMaps[cfg[c].FilterID] = fil[c]
        /\ filterMaxIndex[fil[c]] > 0
        /\ Outs[fil[c]] # {}
        /\ Alive(fil[c])

\* ------------------------------------------------------------------ C14
RECURSIVE SumLen(_, _)
SumLen(f, S) ==
    IF S = {} THEN 0
    ELSE LET x == CHOOSE y \in S : TRUE IN Len(f[x]) + SumLen(f, S \ {x})

\* the event of id n is in the sequence q of event ids
Holds(q, n) == \E j \in 1..Len(q) : q[j] = n

\* the split processing of an event ran to its end
SplitDone(i) == trk[i].done /\ trk[i].mode = "split"

\* C14 as stated: when the split processing of an event ran to its end
\* without shutdown, every ProcessorID that had a rule set merged when the
\* event was read was either dropped for (nothing sent) or sent to.
C14_DroppedOrSent ==
    \A i \in Insts : SplitDone(i) =>
        \A p \in trk[i].keys0 :
            \/ Count(trk[i].dropped, p) = 1 /\ Count(trk[i].sent, p) = 0
            \/ Count(trk[i].dropped, p) = 0 /\ Count(trk[i].sent, p) = 1

\* C14 amended: every ProcessorID with a rule set merged when the event was
\* read is evaluated once, one merged later at most once, and each evaluated
\* one gets exactly one of three outcomes: the rule set rejects, the event is
\* counted dropped and not sent; the rule set accepts and f.Outs has its
\* endpoint, the event is sent there once and counted handled; the rule set
\* accepts and f.Outs has no endpoint for it yet, nothing is sent and nothing
\* counted. The two counters are the numbers of drops and of sends.
C14_DroppedSentOrNoEndpoint ==
    /\ \A i \in Insts : SplitDone(i) =>
          /\ \A p \in trk[i].keys0 : Count(trk[i].evals, p) = 1
          /\ \A p \in Procs :
                /\ Count(trk[i].evals, p) <= 1
                /\ Count(trk[i].dropped, p) + Count(trk[i].sent, p)
                      + Count(trk[i].noout, p) = Count(trk[i].evals, p)
                /\ Count(trk[i].evals, p) = 1 =>
                      (Count(trk[i].dropped, p) = 1 <=>
                          ~Handle(words[i], trk[i].ev.data.text,
                                  taskConfigMaps[i][p]))
                /\ Holds(droppedFor[p], trk[i].ev.id)
                      <=> Count(trk[i].dropped, p) = 1
                /\ Count(delivered[p], trk[i].ev.id) = Count(trk[i].sent, p)
    /\ filterDroppedTotal = SumLen(droppedFor, Procs)
    /\ filterHandledTotal = SumLen(delivered, Procs)

\* one event, rejected for one consumer and sent to another
C14_Witness ==
    \E i \in Insts :
        /\ SplitDone(i)
        /\ Cardinality(trk[i].keys0) = 2
        /\ Len(trk[i].dropped) = 1
        /\ Len(trk[i].sent) = 1
        /\ filterDroppedTotal >= 1 /\ filterHandledTotal >= 1

\* ------------------------------------------------------------------ C15
\* event ids are given in the order the events arrive
Increasing(q) == \A j, k \in 1..Len(q) : j < k => q[j] < q[k]

\* Run takes a new event
ReadsEvent(i) == cur'[i] # cur[i]

\* C15: Run takes an event only when no evaluation and no send of the event
\* before is left, and the event it takes arrived after the one before; so
\* the events delivered to each endpoint are in arrival order, none twice.
C15_ArrivalOrder ==
    /\ [][\A i \in Insts : ReadsEvent(i) =>
              /\ runPc[i] = "select" /\ todo[i] = {} /\ target[i] = "none"
              /\ cur'[i].id > cur[i].id]_vars
    /\ [](\A p \in Procs : Increasing(delivered[p]))

C15_Witness ==
    \E p \in Procs : delivered[p] = << 1, 2 >>

\* ------------------------------------------------------------------ C16
\* Run took the case <-f.End at one of its three selects
ObservedEnd(i) == runPc[i] \in {"ret", "rm", "dead"}

\* C16: once Run took the case <-f.End, it sends nothing more (the record of
\* its sends and drops stays as it is), takes no event, never goes back to a
\* select, and RemoveFilter has run exactly once when Run has returned and
\* not at all before Run took the case.
C16_NothingAfterEnd ==
    /\ [][\A i \in Insts : ObservedEnd(i) =>
              /\ trk'[i] = trk[i]
              /\ cur'[i] = cur[i]
              /\ ObservedEnd(i)'
              /\ removes'[i] >= removes[i]]_vars
    /\ [](\A i \in Insts :
             /\ runPc[i] = "dead" => removes[i] = 1
             /\ runPc[i] # "dead" => removes[i] = 0)

\* shutdown seen at a send, with an endpoint or a rule set of the event left
C16_Witness ==
    \E i \in Insts :
        /\ runPc[i] = "dead"
        /\ removes[i] = 1
        /\ todo[i] # {}
        /\ ~trk[i].done

\* ------------------------------------------------------------------ C17
\* C17: under fair scheduling, once f.End of a started loop is closed, Run
\* returns and its RemoveFilter completes, whether or not the endpoints accept
\* what is sent to them and whether or not events keep coming in.
C17_ShutdownTerminates ==
    \A i \in Callers : End[i] ~> runPc[i] = "dead"

\* the loop returned from a filtered send that was never accepted, having
\* taken every event
C17_Witness ==
    \E i \in Insts :
        /\ End[i] /\ runPc[i] = "dead"
        /\ target[i] # "none"
        /\ produced = MaxEvents

\* ------------------------------------------------------------------ C18
\* call c is inside fil.MergeFilterConfig(taskCfg) of GetFilters
InMerge(c) == pc[c] \in {"merge", "mergewr"}

\* C18: no two calls of GetFilters are inside MergeFilterConfig on the same
\* instance at the same time.
C18_MergesSerialized ==
    \A c, d \in Callers :
        (c # d /\ InMerge(c) /\ InMerge(d)) => fil[c] # fil[d]

\* ------------------------------------------------------------------ C19
\* C19: while no call of GetFilters and no RemoveFilter is in flight,
\* numOfFilterTotal is the number of entries of filterMaps, and it is never
\* negative. Stated for the states no shutdown signal has been given in, where
\* only calls of GetFilters have run.
C19_CounterIsRegistrySize ==
    /\ (Quiescent /\ \A i \in Insts : ~End[i]) =>
           numOfFilterTotal =
               Cardinality({ f \in FilterIDs : filterMaps[f] # NoInst })
    /\ (\A i \in Insts : ~End[i]) => numOfFilterTotal >= 0

\* ------------------------------------------------------------------ C20
\* strings.Split: the split without a bound
FullSplit(text, delimiter) == SplitN(text, delimiter, -1)

\* C20: while Run evaluates the rule sets on the words of the bounded split,
\* every rule set that was merged when the event was read gets from Handle
\* the decision it gets on the words of the unbounded split.
C20_BoundedSplitSameDecision ==
    \A i \in Insts : runPc[i] = "split" =>
        \A p \in todo[i] \cap trk[i].keys0 :
            Handle(words[i], cur[i].data.text, taskConfigMaps[i][p])
                <=> Handle(FullSplit(cur[i].data.text, Delimiter[i]),
                           cur[i].data.text, taskConfigMaps[i][p])

====
